---- MODULE Spec2Model ----
(***************************************************************************)
(* Model of the media-generation pipeline of cortana-mega-bot:             *)
(*   - VideoSession (src/modules/video_gen.py:222-257), the per-user       *)
(*     input-collection state machine;                                     *)
(*   - VideoGenerator (src/modules/video_gen.py:22-218): generate_video,   *)
(*     its mock and real paths, and _poll_for_completion;                  *)
(*   - the video_jobs table (src/database.py:33-44, 239-260).              *)
(* SpecSession runs the session operations in every order; SpecGen runs    *)
(* one generate_video call against a nondeterministic remote service and   *)
(* file system; FairSpecGen adds the scheduling of the event loop; SpecConc *)
(* interleaves two calls; SpecJobs runs the job-record functions.          *)
(***************************************************************************)
EXTENDS Integers, Sequences, FiniteSets, TLC

VARIABLES
    state,      \* VideoSession.state
    photos,     \* VideoSession.photos
    prompt,     \* VideoSession.prompt
    lastOp,     \* name of the last VideoSession method called
    lastRet,    \* what that call returned ("True", "False", "None")
    prev,       \* the session's fields right before that call
    prompted,   \* set_prompt calls since __init__ or the last reset: "no",
                \* or whether the first one found photos empty or not
    mock_mode,  \* VideoGenerator.mock_mode
    api_key,    \* Config.seedance_api_key
    clock,      \* datetime.now(), in seconds
    files,      \* the local files that exist: path -> content
    run,        \* per generate_video call: its locals and position
    jobs        \* the rows of table video_jobs, by job_id

sessVars == <<state, photos, prompt, lastOp, lastRet, prev, prompted>>
genVars  == <<mock_mode, api_key, clock, files, run>>
dbVars   == <<jobs>>
vars     == <<state, photos, prompt, lastOp, lastRet, prev, prompted,
              mock_mode, api_key, clock, files, run, jobs>>

----------------------------------------------------------------------------
(* Inputs of the session operations *)

PhotoRefs == {"a.jpg", "b.jpg"}
Prompts   == {"", "dance video", "walk"}

\* the cap in add_photo: len(self.photos) < 4
MaxSessionPhotos == 4

----------------------------------------------------------------------------
(* VideoSession *)

Snapshot == [state |-> state, photos |-> photos, prompt |-> prompt]

\* VideoSession.__init__
SessionInit ==
    /\ state = "idle"
    /\ photos = << >>
    /\ prompt = ""
    /\ lastOp = "init"
    /\ lastRet = "None"
    /\ prev = [state |-> "idle", photos |-> << >>, prompt |-> ""]
    /\ prompted = "no"

\* the state add_photo works in after its first test (idle -> collecting)
StateAfterIdleCheck(s) == IF s = "idle" THEN "collecting_photos" ELSE s

\* add_photo with the cap test off by one (<= instead of <)
add_photo_cap_off_by_one(photo_path) ==
    LET s1 == StateAfterIdleCheck(state)
        ok == s1 = "collecting_photos" /\ Len(photos) <= MaxSessionPhotos
    IN  /\ prev' = Snapshot
        /\ lastOp' = "add_photo"
        /\ state' = s1
        /\ photos' = IF ok THEN Append(photos, photo_path) ELSE photos
        /\ lastRet' = IF ok THEN "True" ELSE "False"
        /\ UNCHANGED <<prompt, prompted, genVars, dbVars>>

\* add_photo without the test of the state
add_photo_any_state(photo_path) ==
    LET s1 == StateAfterIdleCheck(state)
        ok == Len(photos) < MaxSessionPhotos
    IN  /\ prev' = Snapshot
        /\ lastOp' = "add_photo"
        /\ state' = s1
        /\ photos' = IF ok THEN Append(photos, photo_path) ELSE photos
        /\ lastRet' = IF ok THEN "True" ELSE "False"
        /\ UNCHANGED <<prompt, prompted, genVars, dbVars>>

\* VideoSession.add_photo
add_photo(photo_path) ==
    LET s1 == StateAfterIdleCheck(state)
        ok == s1 = "collecting_photos" /\ Len(photos) < MaxSessionPhotos
    IN  /\ prev' = Snapshot
        /\ lastOp' = "add_photo"
        /\ state' = s1
        /\ photos' = IF ok THEN Append(photos, photo_path) ELSE photos
        /\ lastRet' = IF ok THEN "True" ELSE "False"
        /\ UNCHANGED <<prompt, prompted, genVars, dbVars>>

\* the record of a set_prompt call made with the photos ph
Prompted(p, ph) ==
    IF p # "no" THEN p
    ELSE IF ph = << >> THEN "before_photo" ELSE "after_photo"

\* set_prompt that stores the text and leaves the state as it is
set_prompt_keeps_state(text) ==
    /\ prev' = Snapshot
    /\ lastOp' = "set_prompt"
    /\ prompt' = text
    /\ prompted' = Prompted(prompted, photos)
    /\ lastRet' = "None"
    /\ UNCHANGED <<state, photos, genVars, dbVars>>

\* VideoSession.set_prompt
set_prompt(text) ==
    /\ prev' = Snapshot
    /\ lastOp' = "set_prompt"
    /\ prompt' = text
    /\ state' = "waiting_for_prompt"
    /\ prompted' = Prompted(prompted, photos)
    /\ lastRet' = "None"
    /\ UNCHANGED <<photos, genVars, dbVars>>

\* VideoSession.start_processing
start_processing ==
    /\ prev' = Snapshot
    /\ lastOp' = "start_processing"
    /\ state' = "processing"
    /\ lastRet' = "None"
    /\ UNCHANGED <<photos, prompt, prompted, genVars, dbVars>>

\* reset that forgets to clear the prompt
reset_keeps_prompt ==
    /\ prev' = Snapshot
    /\ lastOp' = "reset"
    /\ prompted' = "no"
    /\ state' = "idle"
    /\ photos' = << >>
    /\ lastRet' = "None"
    /\ UNCHANGED <<prompt, genVars, dbVars>>

\* VideoSession.reset
reset ==
    /\ prev' = Snapshot
    /\ lastOp' = "reset"
    /\ prompted' = "no"
    /\ state' = "idle"
    /\ photos' = << >>
    /\ prompt' = ""
    /\ lastRet' = "None"
    /\ UNCHANGED <<genVars, dbVars>>

(* Python values of mixed type, as is_ready returns them: a bool or a str *)
PyBool(b) == [t |-> "bool", b |-> b, s |-> ""]
PyStr(s)  == [t |-> "str", b |-> FALSE, s |-> s]
\* bool(v)
Truthy(v) == IF v.t = "bool" THEN v.b ELSE v.s # ""
\* a and b: a when a is falsy, else b
PyAnd(a, b) == IF Truthy(a) THEN b ELSE a

\* is_ready without the test of the state
is_ready_no_state_check(s, ph, pr) ==
    PyAnd(PyBool(Len(ph) >= 1), PyStr(pr))

\* VideoSession.is_ready: len(photos) >= 1 and prompt and state == "waiting_for_prompt"
is_ready(s, ph, pr) ==
    PyAnd(PyAnd(PyBool(Len(ph) >= 1), PyStr(pr)),
          PyBool(s = "waiting_for_prompt"))

----------------------------------------------------------------------------
(* VideoGenerator: inputs, the remote service and the file system *)

Runs == {1, 2}

\* job_id arguments a caller passes ("None": the default, job_id=None)
SuppliedJobIds == {"job_a"}
\* f"vid_{uuid.uuid4().hex[:12]}": a value of its own for every call
uuid_job_id(r) == IF r = 1 THEN "vid_1" ELSE "vid_2"
GeneratedJobIds == {uuid_job_id(1), uuid_job_id(2)}
\* job handles the remote service hands out in the /generate response
RemoteJobIds == {"remote_1"}
GenPrompts == {"dance video"}

\* longest photo list passed to generate_video
MaxPhotos == 2
\* the longest remote job when two calls run together
ConcN == 1
\* most non-terminal answers of a remote job before its terminal answer
MaxN == 2
\* a slow status query, in seconds (the transport allows up to 300)
QLong == 150
QueryDurations == {0, QLong}

\* await asyncio.sleep(2) in _mock_generate
MockDelay == 2
\* max_wait: int = 300
max_wait == 300
\* await asyncio.sleep(5) in _poll_for_completion
PollInterval == 5
\* timedelta.seconds is the seconds part of the difference, 0..86399
SecondsPerDay == 86400

\* Config.video_storage_path
video_storage_path == "videos"

PhotoLists == UNION {[1..n -> PhotoRefs] : n \in 0..MaxPhotos}

\* one file name for every job
VideoPath_fixed_name(job_id) ==
    [dir |-> video_storage_path, name |-> "output", ext |-> "mp4"]

\* Path(video_storage_path) / f"{job_id}.mp4"
VideoPath(job_id) == [dir |-> video_storage_path, name |-> job_id, ext |-> "mp4"]
\* Path(video_storage_path)
VideosDir == [dir |-> video_storage_path, name |-> "", ext |-> ""]

Exists(fs, path) == \E f \in fs : f[1] = path
\* the path exists and is no directory: mkdir(exist_ok=True) raises
\* FileExistsError
NotADirectory(fs, path) == \E f \in fs : f[1] = path /\ f[2] # "dir"
\* Path.mkdir(exist_ok=True)
Mkdir(fs, path) == IF Exists(fs, path) THEN fs ELSE fs \cup {<<path, "dir">>}
\* Path.touch(): creates an empty file, keeps an existing one
Touch(fs, path) == IF Exists(fs, path) THEN fs ELSE fs \cup {<<path, "empty">>}
\* Path.write_bytes(content): creates or overwrites
WriteBytes(fs, path, content) ==
    {f \in fs : f[1] # path} \cup {<<path, content>>}

\* the file_id the service returns for an uploaded photo
FileId(photo) == IF photo = "a.jpg" THEN "file_a" ELSE "file_b"

\* what one upload can do: a 200 with a file_id, a non-200 response, a 200
\* without "file_id" (KeyError), open() failing, the request raising
UploadOutcomes == {"ok", "http_error", "no_file_id", "open_fault", "net_fault"}
SubmitOutcomes == {"ok", "http_error", "no_job_id", "net_fault"}
\* what the download can do: a 200 with the video, a non-200 response,
\* mkdir failing, the request raising, write_bytes failing to open the file
\* ("wopen_fault") or failing to write after it opened (and so created or
\* truncated) the file
DownloadOutcomes == {"ok", "http_error", "mkdir_fault", "net_fault",
                     "wopen_fault", "write_fault"}
\* what a failing write_bytes leaves in the file: nothing, or the bytes
\* written before the fault
WrittenBeforeFault == {"empty", "part of the body"}
\* what the file operations of _mock_generate can do
MockOutcomes == {"ok", "mkdir_fault", "touch_fault"}
\* the answers of a status query that end no poll
NonTerminal == {"pending", "http_error", "other_status"}
\* the terminal answer of a remote job ("none": it never gives one)
Finals == {"completed", "completed_no_url", "failed", "failed_no_error",
           "raise", "none"}
\* a remote job: n non-terminal answers, then its terminal answer for good
Scripts == {[n |-> k, final |-> f] : k \in 0..MaxN, f \in Finals \ {"none"}}
           \cup {[n |-> 0, final |-> "none"]}

\* str(e) of the faults
FaultMessage(outcome) ==
    CASE outcome = "open_fault"  -> "No such file or directory"
      [] outcome = "net_fault"   -> "connection failed"
      [] outcome = "no_file_id"  -> "'file_id'"
      [] outcome = "no_job_id"   -> "'job_id'"
      [] outcome = "mkdir_fault" -> "Permission denied"
      [] outcome = "write_fault" -> "No space left on device"
      [] outcome = "wopen_fault" -> "Is a directory"
      [] outcome = "touch_fault" -> "Read-only file system"
      [] outcome = "not_a_dir"   -> "File exists"
      [] outcome = "raise"       -> "read timeout"
      [] outcome = "bad_url"     -> "invalid url"
      [] OTHER                   -> "unknown"

ConfigError  == "Seedance API key not configured"
UploadError  == "Failed to upload photos"
TimeoutError == "Timeout waiting for video generation"
SubmitErrorBody == "quota exceeded"
RemoteError  == "render failed"
VideoUrl     == "https://cdn/video"
MockMessage  == "Video generated (mock mode - until Feb 24)"

NoResult == [status |-> "none"]
NoCalls  == [upload |-> 0, submit |-> 0, query |-> 0, download |-> 0]

\* a call that has not been made yet
FreshRun(pc0) ==
    [pc |-> pc0, job_id |-> "None", prompt |-> "", photos |-> << >>,
     idx |-> 1, outcomes |-> << >>, uploaded_photos |-> << >>,
     submitted |-> << >>, remote_job_id |-> "None",
     svc |-> [n |-> 0, final |-> "none"],
     start_time |-> 0, qstart |-> 0, since |-> 0, allPending |-> TRUE,
     poll |-> NoResult, result |-> NoResult, calls |-> NoCalls,
     fault |-> "none", wrote |-> FALSE,
     submit_outcome |-> "none", download_outcome |-> "none"]

\* VideoGenerator.__init__: the configuration is read once
GenInit ==
    /\ mock_mode \in BOOLEAN
    /\ api_key \in {"", "sk-key"}
    /\ clock = 0
    /\ files = {}
    /\ run = [r \in Runs |-> FreshRun(IF r = 1 THEN "idle" ELSE "off")]

----------------------------------------------------------------------------
(* VideoGenerator.generate_video and its two paths *)

Bump(calls, op) == [calls EXCEPT ![op] = @ + 1]

\* the timedelta's .seconds
Seconds(delta) == delta % SecondsPerDay

\* a fault that leaves generate_video instead of being caught
except_handler_reraises(rec, msg) ==
    [rec EXCEPT !.pc = "escaped", !.fault = msg]

\* a fault raised outside any try: it leaves generate_video, which returns
\* nothing
Raises(rec, msg) == [rec EXCEPT !.pc = "escaped", !.fault = msg]

\* the time at which an await that began at time t and lasts d seconds is
\* over for a call resumed now: never before the time already reached
WakeTime(t, d) == IF t + d > clock THEN t + d ELSE clock

\* a fault raised inside `async with httpx.AsyncClient`: it leaves the
\* block through the client's exit before the handler runs
RaisedInClient(rec, msg) == [rec EXCEPT !.pc = "client_exit", !.fault = msg]

\* except Exception as e: return {job_id, "failed", str(e)}
except_handler(rec, msg) ==
    [rec EXCEPT !.pc = "done", !.fault = msg,
                !.result = [job_id |-> rec.job_id, status |-> "failed",
                            error |-> msg]]

\* if self.mock_mode: _mock_generate else _real_generate
Dispatch(mock) == IF mock THEN "mock" ELSE "real"

\* generate_video(user_id, prompt, photos, job_id): entry and dispatch
generate_video(r) ==
    /\ run[r].pc = "idle"
    /\ \E pr \in GenPrompts, ph \in PhotoLists,
          arg \in SuppliedJobIds \cup {"None"} :
          run' = [run EXCEPT ![r] =
                    [@ EXCEPT !.pc = Dispatch(mock_mode),
                              !.job_id = IF arg = "None" THEN uuid_job_id(r)
                                         ELSE arg,
                              !.prompt = pr,
                              !.photos = ph,
                              !.since = clock]]
    /\ UNCHANGED <<sessVars, dbVars, mock_mode, api_key, clock, files>>

\* _mock_generate up to the end of its await asyncio.sleep(2), which began
\* when the call was made
MockSleep(r) ==
    /\ run[r].pc = "mock"
    /\ clock' = WakeTime(run[r].since, MockDelay)
    /\ run' = [run EXCEPT ![r].pc = "mock_write"]
    /\ UNCHANGED <<sessVars, dbVars, mock_mode, api_key, files>>

\* the rest of _mock_generate with the placeholder file never created
MockWrite_no_touch(r) ==
    /\ run[r].pc = "mock_write"
    /\ files' = Mkdir(files, VideosDir)
    /\ run' = [run EXCEPT ![r] =
                [@ EXCEPT !.pc = "done",
                          !.result = [job_id |-> run[r].job_id,
                                      status |-> "completed",
                                      video_path |-> VideoPath(run[r].job_id),
                                      prompt |-> run[r].prompt]]]
    /\ UNCHANGED <<sessVars, dbVars, mock_mode, api_key, clock>>

\* the rest of _mock_generate: mkdir, touch, return the completed result;
\* there is no try around them, a fault of mkdir or touch leaves the call
MockWrite(r) ==
    /\ run[r].pc = "mock_write"
    /\ \E o \in MockOutcomes :
         LET rec  == run[r]
             made == Mkdir(files, VideosDir)
         IN  CASE NotADirectory(files, VideosDir) ->
                    /\ run' = [run EXCEPT ![r] =
                                 Raises(rec, FaultMessage("not_a_dir"))]
                    /\ UNCHANGED files
               [] ~NotADirectory(files, VideosDir) /\ o = "mkdir_fault" ->
                    /\ run' = [run EXCEPT ![r] =
                                 Raises(rec, FaultMessage(o))]
                    /\ UNCHANGED files
               [] ~NotADirectory(files, VideosDir) /\ o = "touch_fault" ->
                    /\ run' = [run EXCEPT ![r] =
                                 Raises(rec, FaultMessage(o))]
                    /\ files' = made
               [] ~NotADirectory(files, VideosDir) /\ o = "ok" ->
                    /\ run' = [run EXCEPT ![r] =
                                 [rec EXCEPT
                                    !.pc = "done",
                                    !.wrote = TRUE,
                                    !.result =
                                       [job_id |-> rec.job_id,
                                        status |-> "completed",
                                        video_path |-> VideoPath(rec.job_id),
                                        prompt |-> rec.prompt,
                                        message |-> MockMessage]]]
                    /\ files' = Touch(made, VideoPath(rec.job_id))
    /\ UNCHANGED <<sessVars, dbVars, mock_mode, api_key, clock>>

\* _real_generate that goes on without a credential
RealStart_no_key_check(r) ==
    /\ run[r].pc = "real"
    /\ run' = [run EXCEPT ![r].pc = "upload"]
    /\ UNCHANGED <<sessVars, dbVars, mock_mode, api_key, clock, files>>

\* _real_generate: if not api_key: return the configuration failure
RealStart(r) ==
    /\ run[r].pc = "real"
    /\ run' = [run EXCEPT ![r] =
                IF api_key = ""
                THEN [@ EXCEPT !.pc = "done",
                               !.result = [job_id |-> run[r].job_id,
                                           status |-> "failed",
                                           error |-> ConfigError]]
                ELSE [@ EXCEPT !.pc = "upload"]]
    /\ UNCHANGED <<sessVars, dbVars, mock_mode, api_key, clock, files>>

\* the upload loop sending a photo a second time after a non-200 response
Upload_retries_once(r) ==
    /\ run[r].pc = "upload"
    /\ run[r].idx <= Len(run[r].photos)
    /\ \E o \in UploadOutcomes :
         LET rec  == run[r]
             sent == IF o = "open_fault" THEN rec.calls
                     ELSE Bump(rec.calls, "upload")
             next == [rec EXCEPT !.idx = @ + 1,
                                 !.outcomes = Append(@, o),
                                 !.calls = sent]
         IN  run' = [run EXCEPT ![r] =
               CASE o = "ok" ->
                      [next EXCEPT !.uploaded_photos =
                          Append(@, FileId(rec.photos[rec.idx]))]
                 [] o = "http_error" ->
                      IF rec.calls.upload < rec.idx
                      THEN [rec EXCEPT !.calls = sent]
                      ELSE next
                 [] OTHER -> RaisedInClient(next, FaultMessage(o))]
    /\ UNCHANGED <<sessVars, dbVars, mock_mode, api_key, clock, files>>

\* one turn of: for photo_path in photos: open, post /upload, collect file_id
Upload(r) ==
    /\ run[r].pc = "upload"
    /\ run[r].idx <= Len(run[r].photos)
    /\ \E o \in UploadOutcomes :
         LET rec  == run[r]
             sent == IF o = "open_fault" THEN rec.calls
                     ELSE Bump(rec.calls, "upload")
             next == [rec EXCEPT !.idx = @ + 1,
                                 !.outcomes = Append(@, o),
                                 !.calls = sent]
         IN  run' = [run EXCEPT ![r] =
               CASE o = "ok" ->
                      [next EXCEPT !.uploaded_photos =
                          Append(@, FileId(rec.photos[rec.idx]))]
                 [] o = "http_error" -> next
                 [] OTHER -> RaisedInClient(next, FaultMessage(o))]
    /\ UNCHANGED <<sessVars, dbVars, mock_mode, api_key, clock, files>>

\* the end of the upload loop with the test of uploaded_photos left out
UploadsDone_no_check(r) ==
    /\ run[r].pc = "upload"
    /\ run[r].idx > Len(run[r].photos)
    /\ run' = [run EXCEPT ![r].pc = "submit"]
    /\ UNCHANGED <<sessVars, dbVars, mock_mode, api_key, clock, files>>

\* the end of the upload loop failing the job unless every photo was taken
UploadsDone_requires_all(r) ==
    /\ run[r].pc = "upload"
    /\ run[r].idx > Len(run[r].photos)
    /\ run' = [run EXCEPT ![r] =
                IF \/ run[r].uploaded_photos = << >>
                   \/ Len(run[r].uploaded_photos) < Len(run[r].photos)
                THEN [@ EXCEPT !.pc = "client_exit",
                               !.result = [job_id |-> run[r].job_id,
                                           status |-> "failed",
                                           error |-> UploadError]]
                ELSE [@ EXCEPT !.pc = "submit"]]
    /\ UNCHANGED <<sessVars, dbVars, mock_mode, api_key, clock, files>>

\* after the loop: if not uploaded_photos: return the upload failure
UploadsDone(r) ==
    /\ run[r].pc = "upload"
    /\ run[r].idx > Len(run[r].photos)
    /\ run' = [run EXCEPT ![r] =
                IF run[r].uploaded_photos = << >>
                THEN [@ EXCEPT !.pc = "client_exit",
                               !.result = [job_id |-> run[r].job_id,
                                           status |-> "failed",
                                           error |-> UploadError]]
                ELSE [@ EXCEPT !.pc = "submit"]]
    /\ UNCHANGED <<sessVars, dbVars, mock_mode, api_key, clock, files>>

\* the submit step with the status of the response never tested
Submit_no_status_check(r) ==
    /\ run[r].pc = "submit"
    /\ \E o \in SubmitOutcomes, rid \in RemoteJobIds, sc \in Scripts :
         LET rec  == run[r]
             sent == [rec EXCEPT !.calls = Bump(@, "submit"),
                                 !.submitted = rec.uploaded_photos,
                                 !.submit_outcome = o]
         IN  run' = [run EXCEPT ![r] =
               IF o \in {"ok", "http_error"}
               THEN [sent EXCEPT !.pc = "poll_check",
                                 !.remote_job_id = rid,
                                 !.svc = sc,
                                 !.start_time = clock]
               ELSE RaisedInClient(sent, FaultMessage(o))]
    /\ UNCHANGED <<sessVars, dbVars, mock_mode, api_key, clock, files>>

\* post /generate; on 200 take the remote job id and enter
\* _poll_for_completion (start_time = datetime.now())
Submit(r) ==
    /\ run[r].pc = "submit"
    /\ \E o \in SubmitOutcomes, rid \in RemoteJobIds, sc \in Scripts :
         LET rec  == run[r]
             sent == [rec EXCEPT !.calls = Bump(@, "submit"),
                                 !.submitted = rec.uploaded_photos,
                                 !.submit_outcome = o]
         IN  run' = [run EXCEPT ![r] =
               CASE o = "ok" ->
                      [sent EXCEPT !.pc = "poll_check",
                                   !.remote_job_id = rid,
                                   !.svc = sc,
                                   !.start_time = clock]
                 [] o = "http_error" ->
                      [sent EXCEPT !.pc = "client_exit",
                                   !.result = [job_id |-> rec.job_id,
                                               status |-> "failed",
                                               error |-> SubmitErrorBody]]
                 [] OTHER -> RaisedInClient(sent, FaultMessage(o))]
    /\ UNCHANGED <<sessVars, dbVars, mock_mode, api_key, clock, files>>

\* the loop test with the interval counted twice: gives up one cycle early
LoopCondition_early(now, start) ==
    Seconds(now - start) + PollInterval < max_wait

\* while (datetime.now() - start_time).seconds < max_wait
LoopCondition(now, start) == Seconds(now - start) < max_wait

\* the return after the loop of _poll_for_completion
TimeoutResult(remote_job_id) ==
    [job_id |-> remote_job_id, status |-> "failed", error |-> TimeoutError]

\* the loop test of _poll_for_completion: go on to a query, or time out
PollCheck(r) ==
    /\ run[r].pc = "poll_check"
    /\ run' = [run EXCEPT ![r] =
                IF LoopCondition(clock, run[r].start_time)
                THEN [@ EXCEPT !.pc = "poll_query", !.qstart = clock,
                               !.since = clock]
                ELSE [@ EXCEPT !.pc = "poll_ret",
                               !.poll = TimeoutResult(run[r].remote_job_id)]]
    /\ UNCHANGED <<sessVars, dbVars, mock_mode, api_key, clock, files>>

\* what the remote job answers to its i-th status query (i from 0)
Answers(svc, i) ==
    IF svc.final # "none" /\ i >= svc.n THEN {svc.final} ELSE NonTerminal

\* a loop body that does not recognise the "completed" status and polls on
PollAnswer_misses_completed(rec, a) ==
    CASE a \in {"failed", "failed_no_error"} ->
           [rec EXCEPT !.pc = "poll_ret",
                       !.poll = [job_id |-> rec.remote_job_id,
                                 status |-> "failed",
                                 error |-> IF a = "failed" THEN RemoteError
                                           ELSE "Unknown error"]]
      [] a = "raise" -> RaisedInClient(rec, FaultMessage(a))
      [] OTHER -> [rec EXCEPT !.pc = "poll_sleep"]

\* the body of the loop after the response: return on a terminal status,
\* or go to sleep; a raised fault leaves _poll_for_completion
PollAnswer(rec, a) ==
    CASE a \in {"completed", "completed_no_url"} ->
           [rec EXCEPT !.pc = "poll_ret",
                       !.poll = [job_id |-> rec.remote_job_id,
                                 status |-> "completed",
                                 video_url |-> IF a = "completed" THEN VideoUrl
                                               ELSE "None"]]
      [] a \in {"failed", "failed_no_error"} ->
           [rec EXCEPT !.pc = "poll_ret",
                       !.poll = [job_id |-> rec.remote_job_id,
                                 status |-> "failed",
                                 error |-> IF a = "failed" THEN RemoteError
                                           ELSE "Unknown error"]]
      [] a = "raise" -> RaisedInClient(rec, FaultMessage(a))
      [] OTHER -> [rec EXCEPT !.pc = "poll_sleep",
                              !.allPending = @ /\ a = "pending"]

\* get /jobs/{remote_job_id}: the query takes d seconds and is answered
PollQuery(r) ==
    /\ run[r].pc = "poll_query"
    /\ \E d \in QueryDurations, a \in Answers(run[r].svc, run[r].calls.query) :
         /\ clock' = WakeTime(run[r].since, d)
         /\ run' = [run EXCEPT ![r] =
                      PollAnswer([@ EXCEPT !.calls = Bump(@, "query"),
                                           !.since = WakeTime(@, d)], a)]
    /\ UNCHANGED <<sessVars, dbVars, mock_mode, api_key, files>>

\* await asyncio.sleep(5)
PollSleep(r) ==
    /\ run[r].pc = "poll_sleep"
    /\ clock' = WakeTime(run[r].since, PollInterval)
    /\ run' = [run EXCEPT ![r].pc = "poll_check"]
    /\ UNCHANGED <<sessVars, dbVars, mock_mode, api_key, files>>

\* _real_generate after the poll: download on completed, else return
AfterPoll(r) ==
    /\ run[r].pc = "poll_ret"
    /\ run' = [run EXCEPT ![r] =
                IF run[r].poll.status = "completed"
                THEN [@ EXCEPT !.pc = "download"]
                ELSE [@ EXCEPT !.pc = "client_exit", !.result = run[r].poll]]
    /\ UNCHANGED <<sessVars, dbVars, mock_mode, api_key, clock, files>>

\* a body the service sends for the video url
Content(o) == IF o = "ok" THEN "video bytes" ELSE "error body"

\* mkdir, then client.get(video_url) up to its await: a fault of mkdir or
\* of building the request is caught at once; else the call waits for the
\* response (or the fault) of the request
Download(r) ==
    /\ run[r].pc = "download"
    /\ \E o \in DownloadOutcomes :
         LET rec  == run[r]
             made == Mkdir(files, VideosDir)
             sent == [rec EXCEPT !.calls = Bump(@, "download"),
                                 !.download_outcome = o]
         IN  CASE NotADirectory(files, VideosDir) ->
                    /\ run' = [run EXCEPT ![r] =
                                 RaisedInClient(rec, FaultMessage("not_a_dir"))]
                    /\ UNCHANGED files
               [] ~NotADirectory(files, VideosDir) /\ o = "mkdir_fault" ->
                    /\ run' = [run EXCEPT ![r] =
                                 RaisedInClient(rec, FaultMessage(o))]
                    /\ UNCHANGED files
               [] ~NotADirectory(files, VideosDir) /\ o # "mkdir_fault"
                    /\ rec.poll.video_url = "None" ->
                    /\ run' = [run EXCEPT ![r] =
                                 RaisedInClient(rec, FaultMessage("bad_url"))]
                    /\ files' = made
               [] ~NotADirectory(files, VideosDir) /\ o # "mkdir_fault"
                    /\ rec.poll.video_url # "None" ->
                    /\ run' = [run EXCEPT ![r] =
                                 [sent EXCEPT !.pc = "download_write"]]
                    /\ files' = made
    /\ UNCHANGED <<sessVars, dbVars, mock_mode, api_key, clock>>

\* the end of _real_generate with result["video_path"] never set
DownloadWrite_no_video_path(r) ==
    /\ run[r].pc = "download_write"
    /\ LET rec  == run[r]
           path == VideoPath(rec.job_id)
       IN  /\ run' = [run EXCEPT ![r] =
                        [rec EXCEPT !.pc = "client_exit", !.wrote = TRUE,
                                    !.result = rec.poll]]
           /\ files' = WriteBytes(files, path, Content(rec.download_outcome))
    /\ UNCHANGED <<sessVars, dbVars, mock_mode, api_key, clock>>

\* the end of the request and the rest of _real_generate: a raised request
\* is caught; else write_bytes(video_response.content) whatever the
\* response's status, result["video_path"] = str(video_path), return result.
\* write_bytes opens the file before it writes: a fault of the write
\* leaves the file created or truncated, with what was written before the
\* fault; a fault of the open leaves the files as they were. The return and
\* the raise pass through the exit of the client block.
DownloadWrite(r) ==
    /\ run[r].pc = "download_write"
    /\ LET rec  == run[r]
           path == VideoPath(rec.job_id)
           o    == rec.download_outcome
       IN  CASE o \in {"net_fault", "wopen_fault"} ->
                  /\ run' = [run EXCEPT ![r] =
                               RaisedInClient(rec, FaultMessage(o))]
                  /\ UNCHANGED files
             [] o = "write_fault" ->
                  /\ run' = [run EXCEPT ![r] =
                               RaisedInClient(rec, FaultMessage(o))]
                  /\ \E w \in WrittenBeforeFault :
                       files' = WriteBytes(files, path, w)
             [] OTHER ->
                  /\ run' = [run EXCEPT ![r] =
                               [rec EXCEPT
                                  !.pc = "client_exit",
                                  !.wrote = TRUE,
                                  !.result = [job_id |-> rec.poll.job_id,
                                              status |-> "completed",
                                              video_url |-> rec.poll.video_url,
                                              video_path |-> path]]]
                  /\ files' = WriteBytes(files, path, Content(o))
    /\ UNCHANGED <<sessVars, dbVars, mock_mode, api_key, clock>>

\* the exit of `async with httpx.AsyncClient`, which every return and every
\* fault inside the block passes through and which may suspend the call
\* (closing the connection); then the value is returned, or the fault is
\* caught by except Exception
ClientExit(r) ==
    /\ run[r].pc = "client_exit"
    /\ run' = [run EXCEPT ![r] =
                IF run[r].fault # "none"
                THEN except_handler(run[r], run[r].fault)
                ELSE [@ EXCEPT !.pc = "done"]]
    /\ UNCHANGED <<sessVars, dbVars, mock_mode, api_key, clock, files>>

----------------------------------------------------------------------------
(* Table video_jobs and its two writers *)

DbJobIds == {"job_a", "job_b"}
\* the status, video_path and error_message arguments; "None" is None
StatusArgs    == {"None", "", "pending", "processing", "completed", "failed"}
VideoPathArgs == {"None", "videos/job_a.mp4"}
ErrorArgs     == {"None", "Video generation timed out"}

\* no row with that job_id
NoRow == [status |-> "absent", video_path |-> "None", error_message |-> "None"]

\* init_database on a new file: the table is empty
JobsInit == jobs = [j \in DbJobIds |-> NoRow]

\* "if arg:" for an argument that is None or a str
Given(arg) == arg # "None" /\ arg # ""

\* create_video_job: INSERT ... status 'pending'; video_path and
\* error_message are NULL. job_id is UNIQUE: a second insert of the same
\* job_id raises sqlite3.IntegrityError and the table is as before.
create_video_job(job_id) ==
    /\ jobs' = IF jobs[job_id] = NoRow
               THEN [jobs EXCEPT ![job_id] =
                        [status |-> "pending", video_path |-> "None",
                         error_message |-> "None"]]
               ELSE jobs
    /\ UNCHANGED <<sessVars, genVars>>

\* update_video_job: one UPDATE ... WHERE job_id = ? per argument given; no
\* row matches an unknown job_id
update_video_job(job_id, status, video_path, error_message) ==
    /\ jobs' = IF jobs[job_id] = NoRow
               THEN jobs
               ELSE [jobs EXCEPT ![job_id] =
                        [status |-> IF Given(status)
                                    THEN status ELSE @.status,
                         video_path |-> IF Given(video_path)
                                        THEN video_path ELSE @.video_path,
                         error_message |-> IF Given(error_message)
                                           THEN error_message
                                           ELSE @.error_message]]
    /\ UNCHANGED <<sessVars, genVars>>

----------------------------------------------------------------------------
(* Specifications *)

\* the session operations in every order; the generator is not used
InitSession ==
    /\ SessionInit
    /\ mock_mode = TRUE
    /\ api_key = ""
    /\ clock = 0
    /\ files = {}
    /\ run = [r \in Runs |-> FreshRun("off")]
    /\ JobsInit

NextSession ==
    \/ \E p \in PhotoRefs : add_photo(p)
    \/ \E t \in Prompts : set_prompt(t)
    \/ start_processing
    \/ reset

SpecSession == InitSession /\ [][NextSession]_vars

\* one generate_video call; the session is not used
InitGen == SessionInit /\ GenInit /\ JobsInit

\* one step of the generate_video call r
RunStep(r) ==
    \/ generate_video(r)
    \/ MockSleep(r)
    \/ MockWrite(r)
    \/ RealStart(r)
    \/ Upload(r)
    \/ UploadsDone(r)
    \/ Submit(r)
    \/ PollCheck(r)
    \/ PollQuery(r)
    \/ PollSleep(r)
    \/ AfterPoll(r)
    \/ Download(r)
    \/ DownloadWrite(r)
    \/ ClientExit(r)

NextGen == \E r \in Runs : RunStep(r)

SpecGen == InitGen /\ [][NextGen]_vars

\* the event loop resumes every coroutine that can go on: time advances,
\* every request returns or raises
FairSpecGen == SpecGen /\ \A r \in Runs : WF_vars(RunStep(r))

\* two generate_video calls on one VideoGenerator, interleaved at their
\* awaits. Every step adds its own waiting time to the one clock, so a call
\* may find more time gone than its own awaits took, never less.
InitConc ==
    /\ SessionInit
    /\ mock_mode \in BOOLEAN
    /\ api_key \in {"", "sk-key"}
    /\ clock = 0
    /\ files = {}
    /\ run = [r \in Runs |-> FreshRun("idle")]
    /\ JobsInit

\* the photo of the user behind call r
UserPhoto(r) == IF r = 1 THEN "a.jpg" ELSE "b.jpg"

\* the photo lists user r sends when two calls run together
ConcPhotoLists(r) == {<< >>, <<UserPhoto(r)>>}

\* the inputs and remote jobs of the two-call runs: each user sends no
\* photo or a photo of their own; every request is answered
\* (with a success or a non-success status) and no operation raises, the
\* download's included; a remote job answers pending at most ConcN times
\* and then completed or failed
ConcInput(r, rec) ==
    /\ rec.photos \in ConcPhotoLists(r)
    /\ rec.fault = "none"
    /\ rec.download_outcome \in {"none", "ok", "http_error"}
    /\ rec.allPending
    /\ rec.remote_job_id # "None" =>
          (rec.svc.final \in {"completed", "failed"} /\ rec.svc.n <= ConcN)

\* a step of either call; no status query is slow
NextConc ==
    \E r \in Runs :
        RunStep(r) /\ ConcInput(r, run'[r]) /\ clock' - clock <= PollInterval

SpecConc == InitConc /\ [][NextConc]_vars

InitJobs ==
    /\ SessionInit
    /\ mock_mode = TRUE
    /\ api_key = ""
    /\ clock = 0
    /\ files = {}
    /\ run = [r \in Runs |-> FreshRun("off")]
    /\ JobsInit

NextJobs ==
    \/ \E j \in DbJobIds : create_video_job(j)
    \/ \E j \in DbJobIds, st \in StatusArgs, vp \in VideoPathArgs,
          em \in ErrorArgs : update_video_job(j, st, vp, em)

SpecJobs == InitJobs /\ [][NextJobs]_vars

----------------------------------------------------------------------------
(* Claims about VideoSession, checked under SpecSession *)

FreshSession == [state |-> "idle", photos |-> << >>, prompt |-> ""]

\* C1: over every sequence of session operations len(photos) never exceeds
\* 4, and an add_photo call made while 4 photos are held returns False and
\* leaves state, photos and prompt as they were.
C1_PhotoCap ==
    /\ Len(photos) <= MaxSessionPhotos
    /\ (lastOp = "add_photo" /\ Len(prev.photos) = MaxSessionPhotos)
          => (lastRet = "False" /\ Snapshot = prev)

\* an add_photo call refused at the cap
C1_Witness ==
    /\ lastOp = "add_photo"
    /\ Len(prev.photos) = MaxSessionPhotos
    /\ prev.state = "collecting_photos"
    /\ lastRet = "False"

\* C2: in every reachable session state is_ready() is truthy iff there is
\* at least one photo, the prompt is non-empty and the state is
\* waiting_for_prompt.
C2_IsReadyIff ==
    Truthy(is_ready(state, photos, prompt))
        <=> (Len(photos) >= 1 /\ prompt # "" /\ state = "waiting_for_prompt")

\* a ready session, reached through add_photo and set_prompt
C2_Witness ==
    /\ Truthy(is_ready(state, photos, prompt))
    /\ lastOp = "set_prompt"
    /\ Len(photos) >= 1

\* C3: reset() called in any reachable state leaves the session equal to a
\* freshly created one: idle, no photos, no prompt.
C3_ResetToFresh == lastOp = "reset" => Snapshot = FreshSession

\* a reset of a processing session that held four photos and a prompt
C3_Witness ==
    /\ lastOp = "reset"
    /\ prev.state = "processing"
    /\ Len(prev.photos) = MaxSessionPhotos
    /\ prev.prompt # ""

\* C13: a session in state processing is immutable until reset: an
\* add_photo, set_prompt or start_processing call made in state processing
\* leaves state, photos and prompt unchanged, so only reset() leaves the
\* processing state.
C13_ProcessingImmutable ==
    (prev.state = "processing"
        /\ lastOp \in {"add_photo", "set_prompt", "start_processing"})
      => Snapshot = prev

\* C14: start_processing moves the session to processing only when
\* is_ready() was true; called in any other situation it leaves state,
\* photos and prompt as they were.
C14_StartOnlyWhenReady ==
    lastOp = "start_processing" =>
        IF Truthy(is_ready(prev.state, prev.photos, prev.prompt))
        THEN Snapshot = [prev EXCEPT !.state = "processing"]
        ELSE Snapshot = prev

\* C15: in every reachable session state, state waiting_for_prompt implies
\* a non-empty prompt, also after set_prompt with the empty text.
C15_WaitingHasPrompt == state = "waiting_for_prompt" => prompt # ""

\* C16: add_photo returns True only when called in idle or
\* collecting_photos, and then the session is collecting_photos with one
\* more reference at the end of photos and the same prompt (below the cap
\* it does return True there); called in waiting_for_prompt or processing
\* it returns False and leaves state, photos and prompt unchanged.
C16_AddPhotoByState ==
    lastOp = "add_photo" =>
        /\ lastRet = "True" =>
              /\ prev.state \in {"idle", "collecting_photos"}
              /\ state = "collecting_photos"
              /\ \E ref \in PhotoRefs : photos = Append(prev.photos, ref)
              /\ prompt = prev.prompt
        /\ prev.state = "idle" => (lastRet = "True" /\ Len(photos) = 1)
        /\ (prev.state = "collecting_photos"
               /\ Len(prev.photos) < MaxSessionPhotos) => lastRet = "True"
        /\ prev.state \in {"waiting_for_prompt", "processing"} =>
              (lastRet = "False" /\ Snapshot = prev)

\* add_photo refused in state waiting_for_prompt with room for more photos
C16_Witness ==
    /\ lastOp = "add_photo"
    /\ prev.state = "waiting_for_prompt"
    /\ Len(prev.photos) = 1
    /\ prev.prompt # ""
    /\ lastRet = "False"

\* C23: once set_prompt has been called, every add_photo call returns
\* False (and changes nothing) until reset(); so a session whose first
\* set_prompt came before any successful add_photo keeps no photos and is
\* never ready until reset(), and a ready session is one whose first
\* set_prompt since __init__ or the last reset() came after an add_photo.
C23_NoPhotoAfterPrompt ==
    /\ (lastOp = "add_photo" /\ prompted # "no")
          => (lastRet = "False" /\ Snapshot = prev)
    /\ prompted = "before_photo"
          => (photos = << >> /\ ~Truthy(is_ready(state, photos, prompt)))
    /\ Truthy(is_ready(state, photos, prompt)) => prompted = "after_photo"

\* add_photo refused on a session that got its prompt before any photo
C23_Witness ==
    /\ lastOp = "add_photo"
    /\ prompted = "before_photo"
    /\ prev.state = "waiting_for_prompt"
    /\ prev.prompt # ""
    /\ lastRet = "False"

----------------------------------------------------------------------------
(* Claims about VideoGenerator, checked under SpecGen and FairSpecGen *)

\* C4: with mock_mode set, generate_video always returns completed with
\* video_path = <video_storage_path>/<job_id>.mp4, that file exists when the
\* call returns, and no remote operation is issued during the call.
C4_MockCompletes ==
    mock_mode =>
        \A r \in Runs :
            /\ run[r].calls = NoCalls
            /\ run[r].pc \in {"off", "idle", "mock", "mock_write", "done"}
            /\ run[r].pc = "done" =>
                 /\ run[r].result.status = "completed"
                 /\ run[r].result.job_id = run[r].job_id
                 /\ run[r].result.video_path = VideoPath(run[r].job_id)
                 /\ Exists(files, VideoPath(run[r].job_id))

\* what holds of a mock call also when mkdir or touch raises: it issues no
\* remote operation, and if it returns, it returns the completed result
\* and the file exists
C4_MockReturnsOnlyCompleted ==
    mock_mode =>
        \A r \in Runs :
            /\ run[r].calls = NoCalls
            /\ run[r].pc = "done" =>
                 /\ run[r].result.status = "completed"
                 /\ run[r].result.job_id = run[r].job_id
                 /\ run[r].result.video_path = VideoPath(run[r].job_id)
                 /\ Exists(files, VideoPath(run[r].job_id))

\* a mock call that returned, made with no credential and no photos
C4_Witness ==
    /\ mock_mode
    /\ api_key = ""
    /\ run[1].pc = "done"
    /\ run[1].photos = << >>
    /\ run[1].result.status = "completed"

\* C5: in real mode with no API credential generate_video returns failed
\* with the configuration error, issues no remote call and writes no
\* artifact file.
C5_NoCredentialFailsFast ==
    (~mock_mode /\ api_key = "") =>
        \A r \in Runs :
            /\ run[r].calls = NoCalls
            /\ ~run[r].wrote
            /\ ~Exists(files, VideoPath(run[r].job_id))
            /\ run[r].pc \in {"off", "idle", "real", "done"}
            /\ run[r].pc = "done" =>
                 run[r].result = [job_id |-> run[r].job_id,
                                  status |-> "failed",
                                  error |-> ConfigError]

\* a real-mode call with photos that returned the configuration failure
C5_Witness ==
    /\ ~mock_mode
    /\ api_key = ""
    /\ run[1].pc = "done"
    /\ Len(run[1].photos) = MaxPhotos
    /\ run[1].result.error = ConfigError

\* the real path is past its uploads and none returned success
NoUploadSucceeded(r) ==
    /\ ~mock_mode
    /\ api_key # ""
    /\ run[r].pc \notin {"off", "idle", "real"}
    /\ run[r].idx > Len(run[r].photos)
    /\ \A i \in 1..Len(run[r].outcomes) : run[r].outcomes[i] = "http_error"

\* C6: in the real path, if no photo upload returns success (every response
\* is a non-success, or there is no photo), generate_video returns failed
\* with "Failed to upload photos", and submit, status query and download
\* are never invoked.
C6_UploadFailure ==
    \A r \in Runs :
        NoUploadSucceeded(r) =>
            /\ run[r].calls.submit = 0
            /\ run[r].calls.query = 0
            /\ run[r].calls.download = 0
            /\ run[r].pc \in {"upload", "client_exit", "done"}
            /\ run[r].pc = "done" =>
                 run[r].result = [job_id |-> run[r].job_id,
                                  status |-> "failed",
                                  error |-> UploadError]

\* a call whose uploads all got a non-success response, returned
C6_Witness ==
    /\ NoUploadSucceeded(1)
    /\ Len(run[1].photos) = MaxPhotos
    /\ run[1].pc = "done"
    /\ run[1].calls.upload = MaxPhotos

\* the remote job of run r answers pending to its first n queries and
\* completed to the next one (as far as the run has queried it)
PendingThenCompleted(r) ==
    /\ run[r].remote_job_id # "None"
    /\ run[r].svc.final = "completed"
    /\ run[r].allPending

\* seconds since _poll_for_completion took start_time
Elapsed(r) == clock - run[r].start_time

\* C7 as stated: for a service answering pending N times and then
\* completed, _poll_for_completion returns completed after exactly N+1
\* queries, without the elapsed time exceeding max_wait.
C7_Original ==
    \A r \in Runs :
        (PendingThenCompleted(r) /\ run[r].pc = "poll_ret") =>
            /\ run[r].poll.status = "completed"
            /\ run[r].calls.query = run[r].svc.n + 1
            /\ Elapsed(r) <= max_wait

\* C7 amended: for such a service the poller never issues more than N+1
\* queries (none after the completed answer); it returns completed after
\* exactly N+1 queries when every loop test up to that query found the
\* elapsed seconds below max_wait, the last query being started (not
\* necessarily answered) before max_wait; otherwise it returns the timeout
\* failure at or after max_wait, having issued at most N queries.
C7_Amended ==
    \A r \in Runs :
        PendingThenCompleted(r) =>
            /\ run[r].calls.query <= run[r].svc.n + 1
            /\ run[r].pc = "poll_ret" =>
                 \/ /\ run[r].poll.status = "completed"
                    /\ run[r].calls.query = run[r].svc.n + 1
                    /\ Seconds(run[r].qstart - run[r].start_time) < max_wait
                 \/ /\ run[r].poll = TimeoutResult(run[r].remote_job_id)
                    /\ run[r].calls.query <= run[r].svc.n
                    /\ Elapsed(r) >= max_wait

\* the poller returned completed after two pending answers
C7_Witness ==
    /\ PendingThenCompleted(1)
    /\ run[1].pc = "poll_ret"
    /\ run[1].svc.n = MaxN
    /\ run[1].poll.status = "completed"
    /\ run[1].calls.query = MaxN + 1

\* the poller of run r returned the timeout failure
TimedOut(r) ==
    /\ run[r].pc = "poll_ret"
    /\ run[r].poll = TimeoutResult(run[r].remote_job_id)

\* run r polls a remote job that never reports a terminal status
PollingNever(r) ==
    /\ run[r].pc \in {"poll_check", "poll_query", "poll_sleep"}
    /\ run[r].svc.final = "none"

\* C8: for a remote service that never reports a terminal status,
\* _poll_for_completion eventually returns failed with the timeout error,
\* and never returns it while the time elapsed since the poll started is
\* below max_wait.
C8_TimeoutAtDeadline ==
    /\ [](\A r \in Runs : TimedOut(r) => Elapsed(r) >= max_wait)
    /\ \A r \in Runs : (PollingNever(r) ~> TimedOut(r))

\* the timeout returned for a never-terminal job after 60 instant queries
C8_Witness ==
    /\ TimedOut(1)
    /\ run[1].svc.final = "none"
    /\ run[1].calls.query = max_wait \div PollInterval
    /\ Elapsed(1) = max_wait

\* C9: generate_video never lets a fault escape: for a fault raised by a
\* remote or file operation of the upload, submit, poll or download phase
\* the call returns a result with status failed whose error is the fault's
\* message.
C9_FaultsBecomeFailed ==
    \A r \in Runs :
        /\ run[r].pc # "escaped"
        /\ run[r].fault # "none" =>
             /\ run[r].pc \in {"client_exit", "done"}
             /\ run[r].pc = "done" =>
                  run[r].result = [job_id |-> run[r].job_id,
                                   status |-> "failed",
                                   error |-> run[r].fault]

\* the faults of the real path alone are all caught
C9_RealPathFaultsCaught ==
    ~mock_mode =>
        \A r \in Runs :
            /\ run[r].pc # "escaped"
            /\ run[r].fault # "none" =>
                 /\ run[r].pc \in {"client_exit", "done"}
                 /\ run[r].pc = "done" =>
                      run[r].result = [job_id |-> run[r].job_id,
                                       status |-> "failed",
                                       error |-> run[r].fault]

\* a fault of the last phase (the artifact could not be written), returned
C9_Witness ==
    /\ run[1].pc = "done"
    /\ run[1].fault = FaultMessage("write_fault")
    /\ run[1].calls.download = 1
    /\ run[1].result.status = "failed"

\* C10: on every path of generate_video the job_id of the returned result
\* is the local job id, never the remote service's job handle.
C10_JobIdIsLocal ==
    \A r \in Runs :
        run[r].pc = "done" => run[r].result.job_id = run[r].job_id

\* C11: in the real path, if the submit request gets a non-success
\* response, generate_video returns failed with the raw response payload
\* as its error, and no status query and no download is issued.
C11_SubmitRejected ==
    \A r \in Runs :
        run[r].submit_outcome = "http_error" =>
            /\ run[r].pc \in {"client_exit", "done"}
            /\ run[r].pc = "done" =>
                 run[r].result = [job_id |-> run[r].job_id,
                                  status |-> "failed",
                                  error |-> SubmitErrorBody]
            /\ run[r].calls.submit = 1
            /\ run[r].calls.query = 0
            /\ run[r].calls.download = 0

\* a call whose submit was rejected after one of its two uploads succeeded
C11_Witness ==
    /\ run[1].submit_outcome = "http_error"
    /\ run[1].pc = "done"
    /\ Len(run[1].submitted) = 1
    /\ run[1].calls.upload = MaxPhotos

\* C18: every result generate_video returns is terminal and well formed:
\* its status is completed or failed; a completed result has a video_path
\* and no error, a failed one an error and no video_path.
C18_ResultWellFormed ==
    \A r \in Runs :
        run[r].pc = "done" =>
            LET res == run[r].result
            IN  /\ res.status \in {"completed", "failed"}
                /\ res.status = "completed" =>
                     ("video_path" \in DOMAIN res /\ "error" \notin DOMAIN res)
                /\ res.status = "failed" =>
                     ("error" \in DOMAIN res /\ "video_path" \notin DOMAIN res)

\* a real-mode call that polled, downloaded and returned completed
C18_Witness ==
    /\ ~mock_mode
    /\ run[1].pc = "done"
    /\ run[1].result.status = "completed"
    /\ run[1].calls.query >= 1
    /\ run[1].calls.download = 1

\* C19: a status query that errors transiently (a non-success response or
\* a raised fault) counts as still pending for its cycle: the step that
\* ends a query either goes to the sleep before the next query, or returns
\* the completed or failed status the remote job reported; it never ends
\* the call by itself.
C19_QueryErrorKeepsPolling ==
    [][\A r \in Runs :
          (run[r].pc = "poll_query" /\ run'[r] # run[r]) =>
              \/ run'[r].pc = "poll_sleep"
              \/ /\ run'[r].pc = "poll_ret"
                 /\ run[r].svc.final \in
                      {"completed", "completed_no_url", "failed",
                       "failed_no_error"}
                 /\ run'[r].calls.query > run[r].svc.n]_vars

\* C20: in the real path no submit precedes the end of the uploads, no
\* status query precedes a successful submit, the download is issued only
\* after a status query reported completed, and a completed result with a
\* video_path is returned only when the artifact was fetched and written
\* successfully; a failed download yields a failed result without
\* video_path.
C20_OrderAndDownload ==
    \A r \in Runs :
        LET rec == run[r]
        IN  /\ rec.calls.submit >= 1 => rec.idx > Len(rec.photos)
            /\ rec.calls.query >= 1 => rec.submit_outcome = "ok"
            /\ rec.calls.download >= 1 =>
                 (rec.calls.query >= 1 /\ rec.poll.status = "completed")
            /\ (~mock_mode /\ rec.pc = "done"
                  /\ rec.result.status = "completed") =>
                 /\ rec.download_outcome = "ok"
                 /\ <<VideoPath(rec.job_id), Content("ok")>> \in files
            /\ (rec.pc = "done" /\ rec.download_outcome \notin {"none", "ok"}) =>
                 (rec.result.status = "failed"
                    /\ "video_path" \notin DOMAIN rec.result)

\* the order of the remote operations alone
C20_OrderOnly ==
    \A r \in Runs :
        LET rec == run[r]
        IN  /\ rec.calls.submit >= 1 => rec.idx > Len(rec.photos)
            /\ rec.calls.query >= 1 => rec.submit_outcome = "ok"
            /\ rec.calls.download >= 1 =>
                 (rec.calls.query >= 1 /\ rec.poll.status = "completed")

\* C21: within one generate_video call no remote operation is retried:
\* each entry of photos is uploaded at most once, the submit request is sent
\* at most once and the download is requested at most once, whatever the
\* responses or faults; only the status query is repeated, never after a
\* terminal answer of the remote job and never started once the deadline
\* has elapsed.
C21_NoRetry ==
    \A r \in Runs :
        LET rec == run[r]
        IN  /\ Len(rec.outcomes) = rec.idx - 1
            /\ rec.calls.upload <= Len(rec.outcomes)
            /\ Len(rec.outcomes) <= Len(rec.photos)
            /\ rec.calls.submit <= 1
            /\ rec.calls.download <= 1
            /\ rec.svc.final # "none" => rec.calls.query <= rec.svc.n + 1
            /\ rec.pc = "poll_query" =>
                 LoopCondition(clock, rec.start_time)

\* a call whose first upload got a non-200 response, that polled more than
\* once and whose download raised
C21_Witness ==
    /\ run[1].pc = "done"
    /\ Len(run[1].photos) = MaxPhotos
    /\ Len(run[1].outcomes) = MaxPhotos
    /\ run[1].outcomes[1] = "http_error"
    /\ run[1].calls.upload = MaxPhotos
    /\ run[1].calls.submit = 1
    /\ run[1].calls.query >= 2
    /\ run[1].calls.download = 1
    /\ run[1].download_outcome = "net_fault"

\* the file ids of the uploads answered with success, in the order of photos
RECURSIVE FileIdsOfSuccesses(_, _)
FileIdsOfSuccesses(ph, oc) ==
    IF oc = << >> THEN << >>
    ELSE LET rest == FileIdsOfSuccesses(Tail(ph), Tail(oc))
         IN  IF Head(oc) = "ok" THEN <<FileId(Head(ph))>> \o rest ELSE rest

\* every upload so far was answered, with a success or a non-success status
AllAnswered(rec) ==
    \A i \in 1..Len(rec.outcomes) : rec.outcomes[i] \in {"ok", "http_error"}

\* C22: in the real path a non-success upload response does not stop the
\* uploads of the following photos; when at least one upload succeeded the
\* job is submitted, and the submit request carries exactly the file ids of
\* the successful uploads, in the order of the photos.
C22_PartialUploads ==
    \A r \in Runs :
        LET rec == run[r]
        IN  /\ (rec.pc # "upload" /\ rec.outcomes # << >> /\ AllAnswered(rec))
                 => Len(rec.outcomes) = Len(rec.photos)
            /\ (rec.pc \notin {"upload", "submit"} /\ AllAnswered(rec)
                  /\ \E i \in 1..Len(rec.outcomes) : rec.outcomes[i] = "ok")
                 => rec.calls.submit = 1
            /\ rec.calls.submit = 1 =>
                 rec.submitted = FileIdsOfSuccesses(rec.photos, rec.outcomes)

\* a job submitted with the one file id of its second photo, the first
\* upload having got a non-success response
C22_Witness ==
    /\ run[1].calls.submit = 1
    /\ run[1].outcomes = <<"http_error", "ok">>
    /\ run[1].submitted = <<FileId(run[1].photos[2])>>

----------------------------------------------------------------------------
(* Claim about two calls run together, checked under SpecConc *)

\* the two calls were made with different job ids
DistinctJobs ==
    /\ run[1].job_id # "None"
    /\ run[2].job_id # "None"
    /\ run[1].job_id # run[2].job_id

FileAt(fs, path) == {f \in fs : f[1] = path}

\* what the call itself put into its artifact file
OwnContent(rec) ==
    IF mock_mode THEN "empty" ELSE Content(rec.download_outcome)

\* the result of a returned call that ran alone and got the responses the
\* record holds (none of them a fault, the deadline not reached)
AloneResult(rec) ==
    LET failed(msg) == [job_id |-> rec.job_id, status |-> "failed",
                        error |-> msg]
    IN  CASE mock_mode ->
               [job_id |-> rec.job_id, status |-> "completed",
                video_path |-> VideoPath(rec.job_id), prompt |-> rec.prompt,
                message |-> MockMessage]
          [] ~mock_mode /\ api_key = "" -> failed(ConfigError)
          [] ~mock_mode /\ api_key # "" /\ rec.uploaded_photos = << >> ->
               failed(UploadError)
          [] ~mock_mode /\ api_key # "" /\ rec.uploaded_photos # << >>
               /\ rec.submit_outcome = "http_error" -> failed(SubmitErrorBody)
          [] OTHER ->
               IF rec.svc.final = "failed"
               THEN [job_id |-> rec.remote_job_id, status |-> "failed",
                     error |-> RemoteError]
               ELSE [job_id |-> rec.remote_job_id, status |-> "completed",
                     video_url |-> VideoUrl,
                     video_path |-> VideoPath(rec.job_id)]

C12_State ==
    DistinctJobs =>
        /\ VideoPath(run[1].job_id) # VideoPath(run[2].job_id)
        /\ \A r \in Runs :
             /\ run[r].wrote =>
                  FileAt(files, VideoPath(run[r].job_id))
                      = {<<VideoPath(run[r].job_id), OwnContent(run[r])>>}
             /\ run[r].pc = "done" => run[r].result = AloneResult(run[r])

\* a step of call r leaves the other call's locals and artifact file alone
C12_Step ==
    \A r \in Runs :
        run'[r] # run[r] =>
            \A q \in Runs \ {r} :
                /\ run'[q] = run[q]
                /\ (run[q].job_id # "None" /\ run'[r].job_id # run[q].job_id)
                     => FileAt(files', VideoPath(run[q].job_id))
                            = FileAt(files, VideoPath(run[q].job_id))

\* C12: two generate_video runs with distinct job ids, interleaved at
\* their awaits, do not interfere: each run's result and artifact file are
\* those of the run alone with the same service responses, no step of one
\* run changes the other's locals or file, and the two artifact paths differ.
C12_NoInterference == [](C12_State) /\ [][C12_Step]_vars

\* two real-mode calls that both polled twice, downloaded different bodies
\* and returned
C12_Witness ==
    /\ ~mock_mode
    /\ DistinctJobs
    /\ \A r \in Runs : run[r].pc = "done" /\ run[r].wrote
                        /\ run[r].calls.query = ConcN + 1
    /\ run[1].download_outcome = "ok"
    /\ run[2].download_outcome = "http_error"

----------------------------------------------------------------------------
(* Claim about the job records, checked under SpecJobs *)

\* the order pending -> processing -> {completed, failed}
StatusRank(st) ==
    CASE st = "pending" -> 0
      [] st = "processing" -> 1
      [] OTHER -> 2

\* a status may stay, or move forward from a non-terminal status
Forward(old, new) ==
    \/ new = old
    \/ /\ old \in {"pending", "processing"}
       /\ new \in {"processing", "completed", "failed"}
       /\ StatusRank(new) > StatusRank(old)

\* C17: over every sequence of create_video_job / update_video_job calls
\* the status of a job record only moves forward along pending ->
\* processing -> {completed, failed}, and no call changes a status that is
\* completed or failed.
C17_StatusMonotone ==
    [][\A j \in DbJobIds :
          jobs[j] # NoRow => Forward(jobs[j].status, jobs'[j].status)]_vars

====
